---- MODULE Spec2Model ----
(***************************************************************************)
(* A model of the unstructured-client crate: the serde-derived decoding of *)
(* response bodies, elements and metadata (element.rs, metadata.rs), the   *)
(* encoding of PartitionParameters into a multipart form (partition.rs)    *)
(* and UnstructuredClient::partition_file (client.rs).                     *)
(*                                                                         *)
(* JSON values are tagged records; a JSON object is a function from its    *)
(* keys to JSON values (no duplicate keys).  Text that is not JSON is the  *)
(* value NotJson.  Rust's Option is None / Some(x), Result is Ok(x) / Err. *)
(***************************************************************************)
EXTENDS Integers, Sequences, FiniteSets, TLC

VARIABLES entry, arg, out, common, pc, locals, sent, client, process,
          running, suspended

vars == <<entry, arg, out, common, pc, locals, sent, client, process,
          running, suspended>>

-----------------------------------------------------------------------------
(* Rust values *)

None == [some |-> FALSE]
Some(x) == [some |-> TRUE, v |-> x]
Ok(x) == [tag |-> "Ok", v |-> x]
Err(e) == [tag |-> "Err", e |-> e]
Pending == [tag |-> "Pending"]
IsOk(r) == r.tag = "Ok"

-----------------------------------------------------------------------------
(* JSON values, as serde buffers them (serde's Content) *)

JNull == [k |-> "null"]
JBool(b) == [k |-> "bool", b |-> b]
\* an integer literal of at most 31 bits
JNum(n) == [k |-> "num", n |-> n]
\* an integer literal above u32::MAX, such as 4294967296
JBig == [k |-> "bignum"]
\* a literal with a fraction or exponent, in tenths: JFloat(9) is 0.9
JFloat(t) == [k |-> "float", t |-> t]
JStr(s) == [k |-> "str", s |-> s]
JArr(a) == [k |-> "arr", a |-> a]
JObj(o) == [k |-> "obj", o |-> o]
\* a body that is not JSON text
NotJson == [k |-> "notjson"]

EmptyObj == JObj(<<>>)
Has(j, key) == key \in DOMAIN j.o
Put(j, key, val) == JObj((key :> val) @@ j.o)

-----------------------------------------------------------------------------
(* Primitive deserializers: T::deserialize on a buffered JSON value *)

DeserString(j) == IF j.k = "str" THEN Ok(j.s) ELSE Err("invalid type")

DeserBool(j) == IF j.k = "bool" THEN Ok(j.b) ELSE Err("invalid type")

\* a u32 is a non-negative integer literal within range; a literal with a
\* fraction (3.0) is not an integer
DeserU32(j) ==
    IF j.k = "num" /\ j.n >= 0 THEN Ok(j.n) ELSE Err("invalid value")

\* an f64 accepts every JSON number: 1 and 1.0 are the same f64
DeserF64(j) ==
    CASE j.k = "num" -> Ok(JFloat(10 * j.n))
      [] j.k = "float" -> Ok(j)
      [] j.k = "bignum" -> Ok(j)
      [] OTHER -> Err("invalid type")

\* Result::map(Some)
OkSome(r) == IF IsOk(r) THEN Ok(Some(r.v)) ELSE r

\* collect::<Result<_, _>>: the values when every item is Ok
Collect(items) ==
    IF \A i \in DOMAIN items : IsOk(items[i])
    THEN Ok([i \in DOMAIN items |-> items[i].v])
    ELSE Err("invalid type")

DeserPrim(ty, j) ==
    CASE ty = "String" -> DeserString(j)
      [] ty = "bool" -> DeserBool(j)
      [] ty = "u32" -> DeserU32(j)
      [] ty = "f64" -> DeserF64(j)

\* Vec<T>: a JSON array each of whose items is a T
DeserVec(ty, j) ==
    IF j.k # "arr" THEN Err("invalid type")
    ELSE Collect([i \in DOMAIN j.a |-> DeserPrim(ty, j.a[i])])

DeserType(ty, j) ==
    CASE ty = "Vec<String>" -> DeserVec("String", j)
      [] ty = "Vec<f64>" -> DeserVec("f64", j)
      [] OTHER -> DeserPrim(ty, j)

\* Option<T>: null is None, anything else must be a T
DeserOption(ty, j) ==
    IF j.k = "null" THEN Ok(None)
    ELSE OkSome(DeserType(ty, j))

\* an Option<T> field of a struct read from a map: a missing key is None
DeserOptField(ty, j, key) ==
    IF Has(j, key) THEN DeserOption(ty, j.o[key]) ELSE Ok(None)

-----------------------------------------------------------------------------
(* Derived struct deserializers.  A field table lists <<name, type>> in    *)
(* declaration order; every field of these structs is an Option.           *)

FieldNames(fields) == {fields[i][1] : i \in DOMAIN fields}
FieldType(fields, name) == fields[CHOOSE i \in DOMAIN fields : fields[i][1] = name][2]

\* visit_map: known keys are read by type, unknown keys are ignored
DeserStructMap(fields, j) ==
    Collect([n \in FieldNames(fields) |-> DeserOptField(FieldType(fields, n), j, n)])

\* visit_seq: exactly one item per field, in declaration order
DeserStructSeq(fields, j) ==
    IF Len(j.a) # Len(fields) THEN Err("invalid length")
    ELSE Collect([n \in FieldNames(fields) |->
                     DeserOption(FieldType(fields, n),
                                 j.a[CHOOSE i \in DOMAIN fields : fields[i][1] = n])])

-----------------------------------------------------------------------------
(* metadata.rs *)

CommonMetadataFields ==
    << <<"filename", "String">>,
       <<"file_directory", "String">>,
       <<"last_modified", "String">>,
       <<"filetype", "String">>,
       <<"coordinates", "String">>,
       <<"parent_id", "String">>,
       <<"category_depth", "u32">>,
       <<"text_as_html", "String">>,
       <<"languages", "Vec<String>">>,
       <<"emphasized_text_contents", "String">>,
       <<"emphasized_text_tags", "String">>,
       <<"is_continuation", "bool">>,
       <<"detection_class_prob", "Vec<f64>">> >>

CommonFieldNames == FieldNames(CommonMetadataFields)

\* #[derive(Default)]
CommonMetadataDefault == [n \in CommonFieldNames |-> None]

\* CommonMetadata has no flattened field: it is read from a map or a sequence
DeserCommonMetadata(j) ==
    CASE j.k = "obj" -> DeserStructMap(CommonMetadataFields, j)
      [] j.k = "arr" -> DeserStructSeq(CommonMetadataFields, j)
      [] OTHER -> Err("invalid type")

\* the fields each extended struct adds to its flattened `common`
PagedDocument == << <<"page_number", "u32">> >>
ExcelMetadata == << <<"page_number", "u32">>, <<"page_name", "String">> >>
EmailMetadata ==
    << <<"sent_from", "String">>, <<"sent_to", "String">>, <<"subject", "String">> >>
MsgMetadata == << <<"attached_to_filename", "String">> >>
WordDocMetadata == << <<"page_number", "u32">>, <<"header_footer_type", "String">> >>
HtmlMetadata == << <<"link_urls", "Vec<String>">>, <<"link_texts", "Vec<String>">> >>
EpubMetadata == << <<"section", "String">> >>

\* faulty variant: the aliases of the spreadsheet token are left out
ExtendedMetadata_NoAlias ==
    << [variant |-> "PdfPage", tokens |-> {"application/pdf"}, fields |-> PagedDocument],
       [variant |-> "DocxPage",
        tokens |-> {"application/vnd.openxmlformats-officedocument.wordprocessingml.document"},
        fields |-> PagedDocument],
       [variant |-> "PptPage",
        tokens |-> {"application/vnd.openxmlformats-officedocument.presentationml.presentation"},
        fields |-> PagedDocument],
       [variant |-> "XlsxPage",
        tokens |-> {"application/vnd.openxmlformats-officedocument.spreadsheetml.sheet"},
        fields |-> ExcelMetadata],
       [variant |-> "Eml", tokens |-> {"message/rfc822"}, fields |-> EmailMetadata],
       [variant |-> "Msg", tokens |-> {"application/vnd.ms-outlook"}, fields |-> MsgMetadata],
       [variant |-> "WordDoc", tokens |-> {"application/msword"}, fields |-> WordDocMetadata],
       [variant |-> "Html", tokens |-> {"text/html"}, fields |-> HtmlMetadata],
       [variant |-> "Epub", tokens |-> {"application/epub+zip"}, fields |-> EpubMetadata] >>

\* enum ExtendedMetadata, #[serde(tag = "filetype")]: rename and aliases
ExtendedMetadata ==
    << [variant |-> "PdfPage", tokens |-> {"application/pdf"}, fields |-> PagedDocument],
       [variant |-> "DocxPage",
        tokens |-> {"application/vnd.openxmlformats-officedocument.wordprocessingml.document"},
        fields |-> PagedDocument],
       [variant |-> "PptPage",
        tokens |-> {"application/vnd.openxmlformats-officedocument.presentationml.presentation"},
        fields |-> PagedDocument],
       [variant |-> "XlsxPage",
        tokens |-> {"application/vnd.openxmlformats-officedocument.spreadsheetml.sheet",
                    "sheet", "excel"},
        fields |-> ExcelMetadata],
       [variant |-> "Eml", tokens |-> {"message/rfc822"}, fields |-> EmailMetadata],
       [variant |-> "Msg", tokens |-> {"application/vnd.ms-outlook"}, fields |-> MsgMetadata],
       [variant |-> "WordDoc", tokens |-> {"application/msword"}, fields |-> WordDocMetadata],
       [variant |-> "Html", tokens |-> {"text/html"}, fields |-> HtmlMetadata],
       [variant |-> "Epub", tokens |-> {"application/epub+zip"}, fields |-> EpubMetadata] >>

KnownTokens == UNION {ExtendedMetadata[i].tokens : i \in DOMAIN ExtendedMetadata}

\* the map without the keys taken
Without(j, keys) == JObj([x \in DOMAIN j.o \ keys |-> j.o[x]])

\* the struct of its own fields and its flattened common
Flattened(own, com) ==
    IF IsOk(own) /\ IsOk(com) THEN Ok([common |-> com.v, ext |-> own.v])
    ELSE Err("invalid type")

\* faulty variant: the struct's own keys are handed to CommonMetadata as well, and
\* its own fields stay None
DeserFlattened_OwnNone(fields, j) ==
    Flattened(Ok([n \in FieldNames(fields) |-> None]),
              DeserStructMap(CommonMetadataFields, j))

\* a struct with #[serde(flatten)] common: its own keys are read by type and
\* every other key is handed to CommonMetadata
DeserFlattened(fields, j) ==
    Flattened(DeserStructMap(fields, j),
              DeserStructMap(CommonMetadataFields, Without(j, FieldNames(fields))))

\* the variant a token names
VariantOf(token) ==
    ExtendedMetadata[CHOOSE i \in DOMAIN ExtendedMetadata :
                        token \in ExtendedMetadata[i].tokens]

\* the variant holding the struct r
InVariant(variant, r) ==
    IF IsOk(r) THEN Ok([variant |-> variant, common |-> r.v.common, ext |-> r.v.ext])
    ELSE r

\* the newtype variant v read from the content left
DeserVariant(v, content) == InVariant(v.variant, DeserFlattened(v.fields, content))

\* the internally tagged enum: the tag is taken out of the map, it selects
\* the variant, and the variant's struct is read from what is left
DeserExtendedMetadata(j) ==
    IF j.k # "obj" THEN Err("invalid type")
    ELSE IF ~Has(j, "filetype") THEN Err("missing field filetype")
    ELSE IF j.o["filetype"].k # "str" \/ j.o["filetype"].s \notin KnownTokens
    THEN Err("unknown variant")
    ELSE DeserVariant(VariantOf(j.o["filetype"].s), Without(j, {"filetype"}))

KnownFormat(m) == [format |-> "KnownFormat", variant |-> m.variant,
                   common |-> m.common, ext |-> m.ext]
UnknownFormat(c) == [format |-> "UnknownFormat", common |-> c]

\* the first variant that reads the value, KnownFormat before UnknownFormat
FirstMatch(known, unknown) ==
    IF IsOk(known) THEN Ok(KnownFormat(known.v))
    ELSE IF IsOk(unknown) THEN Ok(UnknownFormat(unknown.v))
    ELSE Err("data did not match any variant of untagged enum Metadata")

\* faulty variant: the fallback variant is missing
DeserMetadata_NoFallback(j) ==
    FirstMatch(DeserExtendedMetadata(j), Err("no such variant"))

\* enum Metadata, #[serde(untagged)]: the variants are tried in order
DeserMetadata(j) == FirstMatch(DeserExtendedMetadata(j), DeserCommonMetadata(j))

\* faulty variant: the Html arm returns a fresh CommonMetadata
into_common_metadata_HtmlDefault(m) ==
    IF m.format = "KnownFormat" /\ m.variant = "Html" THEN CommonMetadataDefault
    ELSE m.common

into_common_metadata(m) ==
    IF m.format = "KnownFormat"
    THEN CASE m.variant = "PdfPage" -> m.common
           [] m.variant = "DocxPage" -> m.common
           [] m.variant = "PptPage" -> m.common
           [] m.variant = "XlsxPage" -> m.common
           [] m.variant = "Eml" -> m.common
           [] m.variant = "Msg" -> m.common
           [] m.variant = "WordDoc" -> m.common
           [] m.variant = "Html" -> m.common
           [] m.variant = "Epub" -> m.common
    ELSE m.common

-----------------------------------------------------------------------------
(* element.rs *)

\* enum ElementType: sixteen unit variants
ElementType ==
    {"Formula", "FigureCaption", "NarrativeText", "ListItem", "Title", "Address",
     "EmailAddress", "Image", "PageBreak", "Table", "Header", "Footer",
     "CodeSnippet", "PageNumber", "UncategorizedText", "CompositeElement"}

\* a unit variant is named by a string, or by a map with the single key
\* naming it and a null value (serde's externally tagged form)
DeserElementType(j) ==
    CASE j.k = "str" -> IF j.s \in ElementType THEN Ok(j.s) ELSE Err("unknown variant")
      [] j.k = "obj" ->
           IF \E n \in ElementType : DOMAIN j.o = {n} /\ j.o[n].k = "null"
           THEN Ok(CHOOSE n \in ElementType : DOMAIN j.o = {n})
           ELSE Err("invalid value")
      [] OTHER -> Err("invalid type")

\* metadata: Option<Metadata>
DeserOptionMetadata(j) ==
    IF j.k = "null" THEN Ok(None)
    ELSE OkSome(DeserMetadata(j))

MakeElement(ty, id, text, md) ==
    IF IsOk(ty) /\ IsOk(id) /\ IsOk(text) /\ IsOk(md)
    THEN Ok([type |-> ty.v, element_id |-> id.v, text |-> text.v, metadata |-> md.v])
    ELSE Err("invalid element")

\* faulty variant: metadata is a required key
DeserElementMap_MetadataRequired(j) ==
    MakeElement(
        IF Has(j, "type") THEN DeserElementType(j.o["type"]) ELSE Err("missing field"),
        IF Has(j, "element_id") THEN DeserString(j.o["element_id"]) ELSE Err("missing field"),
        IF Has(j, "text") THEN DeserString(j.o["text"]) ELSE Err("missing field"),
        IF Has(j, "metadata") THEN DeserOptionMetadata(j.o["metadata"])
        ELSE Err("missing field"))

\* struct Element read from a map: type, element_id and text are required,
\* a missing metadata is None, other keys are ignored
DeserElementMap(j) ==
    MakeElement(
        IF Has(j, "type") THEN DeserElementType(j.o["type"]) ELSE Err("missing field"),
        IF Has(j, "element_id") THEN DeserString(j.o["element_id"]) ELSE Err("missing field"),
        IF Has(j, "text") THEN DeserString(j.o["text"]) ELSE Err("missing field"),
        IF Has(j, "metadata") THEN DeserOptionMetadata(j.o["metadata"]) ELSE Ok(None))

\* struct Element read from a sequence: the four fields in declaration order
DeserElementSeq(j) ==
    IF Len(j.a) # 4 THEN Err("invalid length")
    ELSE MakeElement(DeserElementType(j.a[1]), DeserString(j.a[2]),
                     DeserString(j.a[3]), DeserOptionMetadata(j.a[4]))

DeserElement(j) ==
    CASE j.k = "obj" -> DeserElementMap(j)
      [] j.k = "arr" -> DeserElementSeq(j)
      [] OTHER -> Err("invalid type")

\* faulty variant: entries that are no element are skipped
\* faulty variant: the entries before the first that fails are kept
DeserElementList_UntilFailure(j) ==
    IF j.k # "arr" THEN Err("invalid type")
    ELSE LET bad == {i \in DOMAIN j.a : ~IsOk(DeserElement(j.a[i]))}
             stop == IF bad = {} THEN Len(j.a) + 1
                     ELSE CHOOSE i \in bad : \A h \in bad : i <= h
         IN Ok([i \in 1..(stop - 1) |-> DeserElement(j.a[i]).v])

DeserElementList_Lenient(j) ==
    IF j.k # "arr" THEN Err("invalid type")
    ELSE Collect(SelectSeq([i \in DOMAIN j.a |-> DeserElement(j.a[i])], IsOk))

\* ElementList = Vec<Element>
DeserElementList(j) ==
    IF j.k # "arr" THEN Err("invalid type")
    ELSE Collect([i \in DOMAIN j.a |-> DeserElement(j.a[i])])

-----------------------------------------------------------------------------
(* partition.rs.  A String is a TLA+ string; the items of the three list    *)
(* fields are sequences of characters, so that their JSON quoting is       *)
(* computed.  An f64 is kept in tenths.                                    *)

\* faulty variant: the chunk sizes are left unset
PartitionParametersDefault_NoChunkSizes ==
    [coordinates |-> FALSE, encoding |-> Some("utf-8"),
     extract_image_block_types |-> <<>>, gz_uncompressed_content_type |-> None,
     hi_res_model_name |-> None, include_page_breaks |-> FALSE, languages |-> <<>>,
     output_format |-> "application/json", skip_infer_table_types |-> <<>>,
     starting_page_number |-> None, strategy |-> "auto",
     unique_element_ids |-> FALSE, xml_keep_tags |-> FALSE,
     chunking_strategy |-> None, combine_under_n_chars |-> None,
     include_orig_elements |-> TRUE, max_characters |-> None,
     multipage_sections |-> TRUE, new_after_n_chars |-> None, overlap |-> 0,
     overlap_all |-> FALSE, similarity_threshold |-> None]

\* impl Default for PartitionParameters
PartitionParametersDefault ==
    [coordinates |-> FALSE,
     encoding |-> Some("utf-8"),
     extract_image_block_types |-> <<>>,
     gz_uncompressed_content_type |-> None,
     hi_res_model_name |-> None,
     include_page_breaks |-> FALSE,
     languages |-> <<>>,
     output_format |-> "application/json",
     skip_infer_table_types |-> <<>>,
     starting_page_number |-> None,
     strategy |-> "auto",
     unique_element_ids |-> FALSE,
     xml_keep_tags |-> FALSE,
     chunking_strategy |-> None,
     combine_under_n_chars |-> Some(500),
     include_orig_elements |-> TRUE,
     max_characters |-> Some(500),
     multipage_sections |-> TRUE,
     new_after_n_chars |-> Some(1500),
     overlap |-> 0,
     overlap_all |-> FALSE,
     similarity_threshold |-> None]

\* bool::to_string
BoolToString(b) == IF b THEN "true" ELSE "false"

Digit == <<"0", "1", "2", "3", "4", "5", "6", "7", "8", "9">>

RECURSIVE Digits(_)
Digits(n) == IF n < 10 THEN Digit[n + 1] ELSE Digits(n \div 10) \o Digit[(n % 10) + 1]

\* i32::to_string
I32ToString(n) == IF n < 0 THEN "-" \o Digits(-n) ELSE Digits(n)

\* Option::unwrap_or_else(|| d)
UnwrapOr(opt, d) == IF opt.some THEN opt.v ELSE d
\* Option<String>::unwrap_or_default
UnwrapOrDefaultString(opt) == UnwrapOr(opt, "")
\* Option<i32>::unwrap_or_default
UnwrapOrDefaultI32(opt) == UnwrapOr(opt, 0)

\* serde_json's escaping of one character of a string
EscapeChar(c) ==
    CASE c = "\"" -> "\\\""
      [] c = "\\" -> "\\\\"
      [] c = "\n" -> "\\n"
      [] OTHER -> c

RECURSIVE Escaped(_)
Escaped(chars) ==
    IF chars = <<>> THEN "" ELSE EscapeChar(Head(chars)) \o Escaped(Tail(chars))

\* serde_json::to_string(&String)
JsonString(chars) == "\"" \o Escaped(chars) \o "\""

RECURSIVE JsonItems(_)
JsonItems(list) ==
    IF Len(list) = 1 THEN JsonString(list[1])
    ELSE JsonString(Head(list)) \o "," \o JsonItems(Tail(list))

\* faulty variant: a repeated item is written once
serde_json_to_string_Dedup(list) ==
    LET first == SelectSeq([i \in DOMAIN list |-> <<i, list[i]>>],
                           LAMBDA p : \A h \in 1..(p[1] - 1) : list[h] # p[2])
        kept == [i \in DOMAIN first |-> first[i][2]]
    IN IF kept = <<>> THEN "[]" ELSE "[" \o JsonItems(kept) \o "]"

\* serde_json::to_string(&Vec<String>).unwrap()
serde_json_to_string(list) ==
    IF list = <<>> THEN "[]" ELSE "[" \o JsonItems(list) \o "]"

\* Form::new()
FormNew == <<>>
\* Form::text(name, value), as the parts it adds
TextPart(name, value) == << [name |-> name, text |-> value] >>

\* .text(name, value.<flag>.to_string())
\* faulty variant: a flag is written as a digit
BoolPart_Digit(name, b) == TextPart(name, IF b THEN "1" ELSE "0")

BoolPart(name, b) == TextPart(name, BoolToString(b))
\* .text(name, serde_json::to_string(&value.<list>).unwrap())
ListPart(name, list) == TextPart(name, serde_json_to_string(list))
\* .text(name, value.<field>.clone().unwrap_or_default())
OptStringPart(name, opt) == TextPart(name, UnwrapOrDefaultString(opt))
\* faulty variant: one of the integers is left out when absent
OptI32Part_OmitStartingPage(name, opt) ==
    IF name = "starting_page_number" /\ ~opt.some THEN <<>>
    ELSE TextPart(name, I32ToString(UnwrapOrDefaultI32(opt)))

\* .text(name, value.<field>.unwrap_or_default().to_string())
OptI32Part(name, opt) == TextPart(name, I32ToString(UnwrapOrDefaultI32(opt)))

\* impl From<PartitionParameters> for Form
FormFrom(value) ==
    FormNew
    \o BoolPart("coordinates", value.coordinates)
    \o TextPart("encoding", UnwrapOr(value.encoding, "utf-8"))
    \o ListPart("extract_image_block_types", value.extract_image_block_types)
    \o OptStringPart("gz_uncompressed_content_type", value.gz_uncompressed_content_type)
    \o OptStringPart("hi_res_model_name", value.hi_res_model_name)
    \o BoolPart("include_page_breaks", value.include_page_breaks)
    \o ListPart("languages", value.languages)
    \o TextPart("output_format", value.output_format)
    \o ListPart("skip_infer_table_types", value.skip_infer_table_types)
    \o OptI32Part("starting_page_number", value.starting_page_number)
    \o TextPart("strategy", value.strategy)
    \o BoolPart("unique_element_ids", value.unique_element_ids)
    \o BoolPart("xml_keep_tags", value.xml_keep_tags)
    \o OptStringPart("chunking_strategy", value.chunking_strategy)
    \o OptI32Part("combine_under_n_chars", value.combine_under_n_chars)
    \o BoolPart("include_orig_elements", value.include_orig_elements)
    \o OptI32Part("max_characters", value.max_characters)
    \o BoolPart("multipage_sections", value.multipage_sections)
    \o OptI32Part("new_after_n_chars", value.new_after_n_chars)
    \o TextPart("overlap", I32ToString(value.overlap))
    \o BoolPart("overlap_all", value.overlap_all)

-----------------------------------------------------------------------------
(* partition.rs, PartitionResponse.  client.rs and main.rs import it from   *)
(* crate::partition and match on its two variants; the revision of          *)
(* partition.rs at hand does not declare it.  It is the untagged union of   *)
(* the specification: Success(ElementList) tried first, Failure(Value)      *)
(* second.                                                                 *)

Success(list) == [variant |-> "Success", list |-> list]
Failure(value) == [variant |-> "Failure", value |-> value]

\* serde_json::Value takes every JSON value as it is
DeserValue(j) == Ok(j)

\* the first variant that reads the value, Success before Failure
FirstShape(success, failure) ==
    CASE IsOk(success) -> Ok(Success(success.v))
      [] IsOk(failure) -> Ok(Failure(failure.v))
      [] OTHER -> Err("data did not match any variant")

DeserPartitionResponse(j) == FirstShape(DeserElementList(j), DeserValue(j))

-----------------------------------------------------------------------------
(* client.rs *)

API_ROUTE == "/general/v0/general"
VERSION == "CARGO_PKG_VERSION"

\* a Url is its origin and path; one that cannot be a base has no origin
Url(origin, path) == [origin |-> origin, path |-> path]

\* Url::join with a reference that is an absolute path
UrlJoin(base, route) ==
    IF base.origin = None THEN Err("relative URL with a cannot-be-a-base base")
    ELSE Ok(Url(base.origin, route))

\* struct UnstructuredClient (the reqwest::Client it holds has no state here)
UnstructuredClient(base_url, api_key) == [base_url |-> base_url, api_key |-> api_key]

\* Url::parse: the Url a string denotes, an error when it denotes none
UrlParse(text) == IF text.parses THEN Ok(text.url) ELSE Err("URLParseFailed")

\* the client around a parsed url, with no key
NewClient(url) == IF IsOk(url) THEN Ok(UnstructuredClient(url.v, None)) ELSE url

\* UnstructuredClient::new
new(base_url) == NewClient(UrlParse(base_url))

\* UnstructuredClient::with_api_key: Self { api_key: Some(api_key), ..self }
with_api_key(self, api_key) == [self EXCEPT !.api_key = Some(api_key)]

\* fs::read: the bytes of a regular file, an io::Error otherwise
FsRead(path) == IF path.kind = "file" THEN Ok(path.bytes) ELSE Err("Io")

\* Path::file_name: the last component, None when the path ends in ".."
PathFileName(path) == path.file_name

\* faulty variant: a lossy conversion, which yields a name for every path
ToStr_Lossy(name) == Some(name.text)

\* OsStr::to_str: None when the name is not valid UTF-8
ToStr(name) == IF name.utf8 THEN Some(name.text) ELSE None

\* multipart::Part::bytes(file).file_name(file_name)
FilePart(file, file_name) == [bytes |-> file, file_name |-> file_name]

\* faulty variant: the part is put before the text fields
FormPart_Prepended(form, name, part) ==
    <<[name |-> name, bytes |-> part.bytes, file_name |-> part.file_name]>> \o form

\* form.part(name, part)
FormPart(form, name, part) ==
    Append(form, [name |-> name, bytes |-> part.bytes, file_name |-> part.file_name])

\* RequestBuilder::header appends to the request's headers
Header(request, name, value) ==
    [request EXCEPT !.headers = Append(@, <<name, value>>)]

\* client.post(url).multipart(form): multipart sets the body and the
\* Content-Type that carries the boundary
PostMultipart(url, form) ==
    Header([method |-> "POST", url |-> url, headers |-> <<>>, form |-> form],
           "content-type", "multipart/form-data; boundary=BOUNDARY")

\* faulty variant: the key is never put in a header
BuildRequest_NoKey(url, form, api_key) ==
    Header(Header(PostMultipart(url, form), "Content-Type", "multipart/form-data"),
           "User-Agent", "Unstructured-Rust-Client/" \o VERSION)

\* the request partition_file builds from the url, the form and the key
BuildRequest(url, form, api_key) ==
    LET request ==
            Header(Header(PostMultipart(url, form),
                          "Content-Type", "multipart/form-data"),
                   "User-Agent", "Unstructured-Rust-Client/" \o VERSION)
    IN IF api_key.some THEN Header(request, "unstructured-api-key", api_key.v)
       ELSE request

\* the `?` on a reqwest::Error: From<reqwest::Error> for ClientError
MapErr(r, e) == IF IsOk(r) THEN r ELSE Err(e)

\* faulty variant: a status outside 200..299 is an error (error_for_status)
ResponseJson_ErrorForStatus(response) ==
    IF response.status < 200 \/ response.status > 299 \/ response.body = NotJson
    THEN Err("RequestFailed")
    ELSE MapErr(DeserPartitionResponse(response.body), "RequestFailed")

\* Response::json: the whole body read as JSON and decoded; a body that is
\* not JSON and a JSON value of no variant are both a reqwest::Error
ResponseJson(response) ==
    IF response.body = NotJson THEN Err("RequestFailed")
    ELSE MapErr(DeserPartitionResponse(response.body), "RequestFailed")

-----------------------------------------------------------------------------
(* unstructured-cli, args.rs.  The options of a command line are what was   *)
(* written on it: for an option that takes one value, None or Some(value);  *)
(* for an option that may be repeated, the sequence of its values.          *)

\* a field with default_value: the value given, the default when none is
ClapDefault(given, default) == IF given.some THEN given.v ELSE default

\* a Vec field with default_value: the values given; when none is, the
\* default value taken as the one value of the option
ClapVecDefault(given, default) == IF given = <<>> THEN <<default>> ELSE given

\* #[derive(Parser)] struct CliPartitionParameters: the struct clap builds
\* from the options; the default_value "" of a list is the empty string
ClapParse(options) ==
    [coordinates |-> ClapDefault(options.coordinates, FALSE),
     encoding |-> options.encoding,
     extract_image_block_types |->
         ClapVecDefault(options.extract_image_block_types, <<>>),
     gz_uncompressed_content_type |-> options.gz_uncompressed_content_type,
     hi_res_model_name |-> options.hi_res_model_name,
     include_page_breaks |-> ClapDefault(options.include_page_breaks, FALSE),
     languages |-> ClapVecDefault(options.languages, <<>>),
     output_format |-> ClapDefault(options.output_format, "application/json"),
     skip_infer_table_types |->
         ClapVecDefault(options.skip_infer_table_types, <<>>),
     starting_page_number |-> options.starting_page_number,
     strategy |-> ClapDefault(options.strategy, "auto"),
     unique_element_ids |-> ClapDefault(options.unique_element_ids, FALSE),
     xml_keep_tags |-> ClapDefault(options.xml_keep_tags, FALSE),
     chunking_strategy |-> options.chunking_strategy,
     combine_under_n_chars |-> options.combine_under_n_chars,
     include_orig_elements |-> ClapDefault(options.include_orig_elements, TRUE),
     max_characters |-> options.max_characters,
     multipage_sections |-> ClapDefault(options.multipage_sections, TRUE),
     new_after_n_chars |-> options.new_after_n_chars,
     overlap |-> ClapDefault(options.overlap, 0),
     overlap_all |-> ClapDefault(options.overlap_all, FALSE),
     similarity_threshold |-> options.similarity_threshold]

\* impl From<CliPartitionParameters> for PartitionParameters
PartitionParametersFrom(cli_params) ==
    [coordinates |-> cli_params.coordinates,
     encoding |-> cli_params.encoding,
     extract_image_block_types |-> cli_params.extract_image_block_types,
     gz_uncompressed_content_type |-> cli_params.gz_uncompressed_content_type,
     hi_res_model_name |-> cli_params.hi_res_model_name,
     include_page_breaks |-> cli_params.include_page_breaks,
     languages |-> cli_params.languages,
     output_format |-> cli_params.output_format,
     skip_infer_table_types |-> cli_params.skip_infer_table_types,
     starting_page_number |-> cli_params.starting_page_number,
     strategy |-> cli_params.strategy,
     unique_element_ids |-> cli_params.unique_element_ids,
     xml_keep_tags |-> cli_params.xml_keep_tags,
     chunking_strategy |-> cli_params.chunking_strategy,
     combine_under_n_chars |-> cli_params.combine_under_n_chars,
     include_orig_elements |-> cli_params.include_orig_elements,
     max_characters |-> cli_params.max_characters,
     multipage_sections |-> cli_params.multipage_sections,
     new_after_n_chars |-> cli_params.new_after_n_chars,
     overlap |-> cli_params.overlap,
     overlap_all |-> cli_params.overlap_all,
     similarity_threshold |-> cli_params.similarity_threshold]

-----------------------------------------------------------------------------
(* unstructured-cli, main.rs *)

\* serde_json::to_string of a decoded value: its JSON text, here the value
\* tagged as text; serializing these types has no failing case
to_string(value) == Ok([json_text_of |-> value])

\* the process after writing line to a stream and ending with code
Exit(p, stream, line, code) ==
    [p EXCEPT ![stream] = Append(@, line), !.exit = Some(code)]

\* main returning Err(e): the runtime prints the error and exits with 1
ExitErr(p, e) == Exit(p, "stderr", [error |-> e], 1)

\* println!/eprintln! of to_string(value)?, then Ok(()): exit code 0
PrintAndReturn(p, stream, text) ==
    IF IsOk(text) THEN Exit(p, stream, text.v, 0) ELSE ExitErr(p, "JSONError")

\* main, from the match on the partition response to its return
MainResult(p, r) ==
    CASE ~IsOk(r) -> ExitErr(p, r.e)
      [] r.v.variant = "Success" -> PrintAndReturn(p, "stdout", to_string(r.v.list))
      [] OTHER -> PrintAndReturn(p, "stderr", to_string(r.v))

\* AppArgs::parse on a --base-url that is no Url: clap prints the error and
\* exits with 2
ExitUsage(p) == Exit(p, "stderr", [error |-> "invalid value for --base-url"], 2)

\* app_args and params are main's, the others partition_file's; params is
\* the value partition_file is called with
LocalsInit ==
    [app_args |-> None, params |-> None, url |-> None, file |-> None,
     file_name |-> None, request |-> None, response |-> None]

-----------------------------------------------------------------------------
(* Inputs: the JSON texts handed to the decoders *)

MaxFields == 2

\* <<key, value>> pairs a metadata object may carry besides filetype
FieldPool ==
    { <<"filename", JStr("example.pdf")>>, <<"filename", JNum(5)>>,
      <<"filename", JNull>>,
      <<"file_directory", JStr("/documents")>>,
      <<"last_modified", JStr("2023-10-01")>>,
      <<"coordinates", JStr("100,100,200,200")>>,
      <<"coordinates", JObj([system |-> JStr("PixelSpace")])>>,
      <<"parent_id", JStr("1")>>,
      <<"category_depth", JNum(2)>>, <<"category_depth", JNum(-1)>>,
      <<"text_as_html", JStr("<p>Example</p>")>>,
      <<"languages", JArr(<<JStr("en"), JStr("fr")>>)>>,
      <<"emphasized_text_contents", JStr("important")>>,
      <<"emphasized_text_tags", JStr("<b>")>>,
      <<"is_continuation", JBool(FALSE)>>,
      <<"detection_class_prob", JArr(<<JFloat(1), JNum(1)>>)>>,
      <<"page_number", JNum(3)>>, <<"page_number", JStr("three")>>,
      <<"page_number", JBig>>, <<"page_number", JFloat(30)>>,
      <<"page_name", JStr("Sheet1")>>,
      <<"sent_from", JStr("a@example.com")>>,
      <<"sent_to", JStr("b@example.com")>>,
      <<"subject", JStr("Hello")>>,
      <<"attached_to_filename", JStr("mail.msg")>>,
      <<"header_footer_type", JStr("primary")>>,
      <<"link_urls", JArr(<<JStr("http://example.com")>>)>>,
      <<"link_urls", JStr("http://example.com")>>,
      <<"link_texts", JArr(<<JStr("here")>>)>>,
      <<"section", JStr("Chapter 1")>>,
      <<"orig_elements", JStr("eJy")>>,
      <<"width", JNum(1024)>> }

RECURSIVE Objects(_)
\* the objects holding at most n pairs of the pool, one value per key
Objects(n) ==
    IF n = 0 THEN {EmptyObj}
    ELSE LET prev == Objects(n - 1)
         IN prev \cup {Put(o, p[1], p[2]) : <<o, p>> \in
                          {x \in prev \X FieldPool : ~Has(x[1], x[2][1])}}

\* the filetype strings the service is documented to send, and one it is not
FiletypeStrings ==
    {"application/pdf",
     "application/vnd.openxmlformats-officedocument.wordprocessingml.document",
     "application/vnd.openxmlformats-officedocument.presentationml.presentation",
     "application/vnd.openxmlformats-officedocument.spreadsheetml.sheet",
     "sheet", "excel", "message/rfc822", "application/vnd.ms-outlook",
     "application/msword", "text/html", "application/epub+zip", "asdfasdfasdf"}

FiletypeValues == {JStr(t) : t \in FiletypeStrings} \cup {JNull}

\* metadata.rs, tests::test_pdf_element
TestPdfElement ==
    JObj([filetype |-> JStr("application/pdf"), filename |-> JStr("example.pdf"),
          file_directory |-> JStr("/documents"), last_modified |-> JStr("2023-10-01"),
          coordinates |-> JStr("100,100,200,200"), parent_id |-> JStr("1"),
          category_depth |-> JNum(2), text_as_html |-> JStr("<p>Example</p>"),
          languages |-> JArr(<<JStr("en"), JStr("fr")>>),
          emphasized_text_contents |-> JStr("important"),
          emphasized_text_tags |-> JStr("<b>"), is_continuation |-> JBool(FALSE),
          detection_class_prob |-> JArr(<<JFloat(1), JFloat(9)>>),
          page_number |-> JNum(1)])

\* metadata.rs, tests::test_unknown_element
TestUnknownElement ==
    JObj([filetype |-> JStr("asdfasdfasdf"), filename |-> JStr("example.pdf"),
          file_directory |-> JStr("/documents"), last_modified |-> JStr("2023-10-01")])

MetadataInputs ==
    LET objs == Objects(MaxFields)
    IN objs \cup {Put(o, "filetype", t) : o \in objs, t \in FiletypeValues}
            \cup {TestPdfElement, TestUnknownElement}

\* a key left out of an object under construction
Absent == [k |-> "absent"]

\* the object holding the given <<key, value>> pairs, Absent values left out
ObjectOf(pairs) ==
    LET kept == {p \in pairs : p[2] # Absent}
    IN JObj([key \in {p[1] : p \in kept} |-> (CHOOSE p \in kept : p[1] = key)[2]])

\* values of an element's `type`: the vocabulary, and values outside it
TypeValues ==
    {JStr(t) : t \in
        {"Formula", "FigureCaption", "NarrativeText", "ListItem", "Title", "Address",
         "EmailAddress", "Image", "PageBreak", "Table", "Header", "Footer",
         "CodeSnippet", "PageNumber", "UncategorizedText", "CompositeElement",
         "video", "narrativetext"}}
    \cup {Absent, JNull, JNum(1), JObj([Title |-> JNull]), JObj([Title |-> JStr("x")]),
          JObj([video |-> JNull])}

ElementIdValues == {Absent, JStr("1"), JNum(1), JNull}
TextValues == {Absent, JStr("Hello"), JNull}

\* values of an element's `metadata`
MetadataValues ==
    {Absent, JNull, EmptyObj,
     JObj([filename |-> JStr("image.jpg")]),
     JObj([filetype |-> JStr("application/pdf"), page_number |-> JNum(3)]),
     JObj([filetype |-> JStr("application/pdf"), page_number |-> JStr("three")]),
     JObj([filename |-> JNum(5)]),
     JNum(5), JStr("x"),
     JArr([i \in 1..13 |-> JNull]), JArr(<<JNull>>)}

ElementInputs ==
    {ObjectOf({<<"type", t>>, <<"element_id", i>>, <<"text", x>>, <<"metadata", m>>}) :
        t \in TypeValues, i \in ElementIdValues, x \in TextValues, m \in MetadataValues}
    \cup {ObjectOf({<<"type", JStr("Image")>>, <<"element_id", JStr("2")>>,
                    <<"text", JStr("b64data")>>, <<"metadata", m>>, <<"extra", JNum(1)>>}) :
             m \in MetadataValues}
    \cup {JArr(<<JStr("Title"), JStr("1"), JStr("Hello"), JNull>>),
          JArr(<<JStr("Title"), JStr("1"), JStr("Hello")>>),
          JStr("Title"), JNull}

MaxListLen == 2

\* the items of the list fields: a plain one, and one that needs escaping
ListItems == {<<"e", "n", "g">>, <<"a", "\"", "b">>}

RECURSIVE Lists(_)
\* the lists of at most n items
Lists(n) ==
    IF n = 0 THEN {<<>>}
    ELSE LET prev == Lists(n - 1)
         IN prev \cup {Append(l, x) : l \in prev, x \in ListItems}

OptI32Values == {None, Some(0), Some(500), Some(-1)}
OptChunkingValues == {None, Some("basic"), Some("by_title")}
\* similarity_threshold, in tenths: 0.5, and 1.5 which is outside [0, 1]
OptSimilarityValues == {None, Some(5), Some(15)}
OptEncodingValues == {None, Some("utf-8"), Some("latin-1")}
StrategyValues == {"fast", "hi_res", "auto", "ocr_only"}
OutputFormatValues == {"application/json", "text/csv"}
OverlapValues == {0, 5, -3, 2147483647}

\* the Configurations handed to the encoder: the default one with a group of
\* its fields varied over every combination of the group's values
PartitionParametersInputs ==
    {[PartitionParametersDefault EXCEPT
         !.starting_page_number = a, !.combine_under_n_chars = b,
         !.max_characters = c, !.new_after_n_chars = d,
         !.chunking_strategy = cs, !.similarity_threshold = st] :
        a \in OptI32Values, b \in OptI32Values, c \in OptI32Values, d \in OptI32Values,
        cs \in OptChunkingValues, st \in OptSimilarityValues}
    \cup
    {[PartitionParametersDefault EXCEPT
         !.extract_image_block_types = x, !.languages = l,
         !.skip_infer_table_types = t] :
        x \in Lists(MaxListLen), l \in Lists(MaxListLen), t \in Lists(MaxListLen)}
    \cup
    {[PartitionParametersDefault EXCEPT
         !.coordinates = f[1], !.include_page_breaks = f[2],
         !.unique_element_ids = f[3], !.xml_keep_tags = f[4],
         !.include_orig_elements = f[5], !.multipage_sections = f[6],
         !.overlap_all = f[7]] :
        f \in [1..7 -> BOOLEAN]}
    \cup
    {[PartitionParametersDefault EXCEPT
         !.encoding = e, !.strategy = st, !.output_format = fmt,
         !.gz_uncompressed_content_type = gz, !.hi_res_model_name = hm,
         !.overlap = ov] :
        e \in OptEncodingValues, st \in StrategyValues, fmt \in OutputFormatValues,
        gz \in {None, Some("application/pdf")}, hm \in {None, Some("yolox")},
        ov \in OverlapValues}

MaxElems == 2

\* entries a response array may hold: elements, and values that are none
ResponseEntries ==
    {JObj([type |-> JStr("NarrativeText"), element_id |-> JStr("1"),
           text |-> JStr("Hello"), metadata |-> JNull]),
     JObj([type |-> JStr("Title"), element_id |-> JStr("2"), text |-> JStr("Intro")]),
     JObj([type |-> JStr("Table"), element_id |-> JStr("3"), text |-> JStr("a b"),
           metadata |-> TestPdfElement]),
     JObj([type |-> JStr("Title"), element_id |-> JStr("2")]),
     JObj([type |-> JStr("video"), element_id |-> JStr("4"), text |-> JStr("x")]),
     JObj([type |-> JStr("Title"), element_id |-> JStr("5"), text |-> JStr("x"),
           metadata |-> JObj([filename |-> JNum(5)])]),
     JArr(<<JStr("Title"), JStr("1"), JStr("Hello"), JNull>>),
     JArr(<<JStr("Title")>>),
     JNum(1)}

RECURSIVE Arrays(_)
\* the arrays of at most n entries
Arrays(n) ==
    IF n = 0 THEN {<<>>}
    ELSE LET prev == Arrays(n - 1)
         IN prev \cup {Append(a, e) : a \in prev, e \in ResponseEntries}

\* response bodies: text that is not JSON, arrays, and other JSON values
Bodies ==
    {NotJson, JNull, JBool(TRUE), JNum(1), JStr("Internal Server Error"),
     JObj([error |-> JStr("Invalid API key")]),
     JObj([detail |-> JStr("File type None is not supported.")]),
     JObj([type |-> JStr("NarrativeText"), element_id |-> JStr("1"),
           text |-> JStr("Hello"), metadata |-> JNull])}
    \cup {JArr(a) : a \in Arrays(MaxElems)}

Statuses == {200, 401, 422, 500}

\* what the far end does with a request: the connection fails, or a response
Replies ==
    {[kind |-> "error"]}
    \cup {[kind |-> "response", status |-> st, body |-> b] : st \in Statuses, b \in Bodies}

BaseUrls == {Url(Some("http://localhost:8000"), "/"),
             Url(Some("https://api.unstructured.io"), "/v1/"),
             Url(None, "mailto:docs@example.com")}

\* paths: a regular file, one with a name that is not UTF-8, a path that
\* does not exist, and the directory ".."
Paths ==
    {[kind |-> "file", bytes |-> "%PDF", file_name |-> Some([utf8 |-> TRUE, text |-> "a.pdf"])],
     [kind |-> "file", bytes |-> "", file_name |-> Some([utf8 |-> TRUE, text |-> "empty.txt"])],
     [kind |-> "file", bytes |-> "%PDF", file_name |-> Some([utf8 |-> FALSE, text |-> "caf\\xE9.pdf"])],
     [kind |-> "missing", file_name |-> Some([utf8 |-> TRUE, text |-> "nope.pdf"])],
     [kind |-> "dir", file_name |-> None]}

\* the strings given as base url: those that parse, and one that does not
BaseUrlStrings ==
    {[parses |-> TRUE, url |-> u] : u \in BaseUrls} \cup {[parses |-> FALSE]}

ApiKeys == {None, Some("secret")}

ParamsOfCalls ==
    {PartitionParametersDefault,
     [PartitionParametersDefault EXCEPT !.chunking_strategy = Some("by_title"),
                                        !.languages = << <<"e", "n", "g">> >>]}

\* a caller of the library: new(base_url), with_api_key(api_key) when it has a
\* key, then partition_file(file_path, params)
PartitionInputs ==
    {[base_url |-> b, api_key |-> k, file_path |-> f, params |-> q] :
        b \in BaseUrlStrings, k \in ApiKeys, f \in Paths, q \in ParamsOfCalls}

\* a command line that gives none of the partition options
NoOptions ==
    [coordinates |-> None, encoding |-> None, extract_image_block_types |-> <<>>,
     gz_uncompressed_content_type |-> None, hi_res_model_name |-> None,
     include_page_breaks |-> None, languages |-> <<>>, output_format |-> None,
     skip_infer_table_types |-> <<>>, starting_page_number |-> None,
     strategy |-> None, unique_element_ids |-> None, xml_keep_tags |-> None,
     chunking_strategy |-> None, combine_under_n_chars |-> None,
     include_orig_elements |-> None, max_characters |-> None,
     multipage_sections |-> None, new_after_n_chars |-> None, overlap |-> None,
     overlap_all |-> None, similarity_threshold |-> None]

\* command lines: no option; --languages twice and --strategy; the other
\* two lists with --chunking-strategy and --coordinates
OptionsOfRuns ==
    {NoOptions,
     [NoOptions EXCEPT !.languages = << <<"e", "n", "g">>, <<"f", "r", "a">> >>,
                       !.strategy = Some("hi_res")],
     [NoOptions EXCEPT !.extract_image_block_types = << <<"I", "m", "a", "g", "e">> >>,
                       !.skip_infer_table_types = << <<"p", "d", "f">> >>,
                       !.chunking_strategy = Some("by_title"),
                       !.coordinates = Some(TRUE)]}

\* the command line: --base-url, --file-path and the partition options;
\* main sets no key
CliInputs ==
    {[base_url |-> b, api_key |-> None, file_path |-> f, options |-> q] :
        b \in BaseUrlStrings, f \in Paths, q \in OptionsOfRuns}

\* the process before main has written anything or ended
ProcessInit == [stdout |-> <<>>, stderr |-> <<>>, exit |-> None]


-----------------------------------------------------------------------------
(* The callers: each behaviour drives one entry point of the library on one *)
(* input.                                                                  *)

Init ==
    /\ \/ entry = "Metadata" /\ arg \in MetadataInputs
       \/ entry = "Element" /\ arg \in ElementInputs
       \/ entry = "Form" /\ arg \in PartitionParametersInputs
       \/ entry = "Partition" /\ arg \in PartitionInputs
       \/ entry = "Cli" /\ arg \in CliInputs
       \/ entry = "Default" /\ arg = <<>>
    /\ out = Pending
    /\ common = Pending
    /\ pc = CASE entry = "Partition" -> "new"
              [] entry = "Cli" -> "main"
              [] OTHER -> "idle"
    /\ locals = IF entry = "Partition"
                THEN [LocalsInit EXCEPT !.params = Some(arg.params)]
                ELSE LocalsInit
    /\ sent = <<>>
    /\ client = None
    /\ process = ProcessInit
    /\ running = 1
    /\ suspended = <<>>

\* serde_json::from_str::<Metadata>(arg)
FromStrMetadata ==
    /\ entry = "Metadata"
    /\ out = Pending
    /\ out' = DeserMetadata(arg)
    /\ UNCHANGED <<entry, arg, common, pc, locals, sent, client, process>>
    /\ UNCHANGED <<running, suspended>>

\* Metadata::into_common_metadata on a decoded value
IntoCommonMetadata ==
    /\ entry = "Metadata"
    /\ IsOk(out)
    /\ common = Pending
    /\ common' = Ok(into_common_metadata(out.v))
    /\ UNCHANGED <<entry, arg, out, pc, locals, sent, client, process>>
    /\ UNCHANGED <<running, suspended>>

\* serde_json::from_str::<Element>(arg)
FromStrElement ==
    /\ entry = "Element"
    /\ out = Pending
    /\ out' = DeserElement(arg)
    /\ UNCHANGED <<entry, arg, common, pc, locals, sent, client, process>>
    /\ UNCHANGED <<running, suspended>>

\* let form: Form = params.into()
IntoForm ==
    /\ entry = "Form"
    /\ out = Pending
    /\ out' = Ok(FormFrom(arg))
    /\ UNCHANGED <<entry, arg, common, pc, locals, sent, client, process>>
    /\ UNCHANGED <<running, suspended>>

\* PartitionParameters::default()
DefaultParameters ==
    /\ entry = "Default"
    /\ out = Pending
    /\ out' = Ok(PartitionParametersDefault)
    /\ UNCHANGED <<entry, arg, common, pc, locals, sent, client, process>>
    /\ UNCHANGED <<running, suspended>>

\* let app_args = AppArgs::parse()
MainParse ==
    /\ pc = "main"
    /\ IF arg.base_url.parses
       THEN /\ pc' = "new"
            /\ locals' = [locals EXCEPT !.app_args = Some(ClapParse(arg.options))]
            /\ UNCHANGED process
       ELSE /\ pc' = "exited"
            /\ process' = ExitUsage(process)
            /\ UNCHANGED locals
    /\ UNCHANGED <<entry, arg, out, common, sent, client>>
    /\ UNCHANGED <<running, suspended>>

\* let params = PartitionParameters::from(app_args.partition_parameters)
MainParams ==
    /\ pc = "params"
    /\ locals' = [locals EXCEPT !.params = Some(PartitionParametersFrom(locals.app_args.v))]
    /\ pc' = "join"
    /\ UNCHANGED <<entry, arg, out, common, sent, client, process>>
    /\ UNCHANGED <<running, suspended>>

\* match partition_response { .. }; Ok(()), and the `?` of main
MainMatch ==
    /\ entry = "Cli"
    /\ pc = "done"
    /\ process' = MainResult(process, out)
    /\ pc' = "exited"
    /\ UNCHANGED <<entry, arg, out, common, locals, sent, client>>
    /\ UNCHANGED <<running, suspended>>

\* partition_file returns r
Return(r) ==
    /\ out' = r
    /\ pc' = "done"

\* let client = UnstructuredClient::new(base_url)?
New ==
    /\ pc = "new"
    /\ LET r == new(arg.base_url)
       IN IF IsOk(r)
          THEN /\ client' = Some(r.v)
               /\ pc' = CASE entry = "Cli" -> "params"
                           [] arg.api_key.some -> "with_api_key"
                           [] OTHER -> "join"
               /\ UNCHANGED out
          ELSE /\ Return(r)
               /\ UNCHANGED client
    /\ UNCHANGED <<entry, arg, common, locals, sent, process>>
    /\ UNCHANGED <<running, suspended>>

\* let client = client.with_api_key(api_key)
WithApiKey ==
    /\ pc = "with_api_key"
    /\ client' = Some(with_api_key(client.v, arg.api_key.v))
    /\ pc' = "join"
    /\ UNCHANGED <<entry, arg, out, common, locals, sent, process>>
    /\ UNCHANGED <<running, suspended>>

\* let url = self.base_url.join(API_ROUTE).map_err(URLParseFailed)?
JoinUrl ==
    /\ pc = "join"
    /\ LET url == UrlJoin(client.v.base_url, API_ROUTE)
       IN IF IsOk(url)
          THEN /\ locals' = [locals EXCEPT !.url = Some(url.v)]
               /\ pc' = "read"
               /\ UNCHANGED out
          ELSE /\ Return(Err("URLParseFailed"))
               /\ UNCHANGED locals
    /\ UNCHANGED <<entry, arg, common, sent, client, process>>
    /\ UNCHANGED <<running, suspended>>

\* let file = fs::read(file_path)?
ReadFile ==
    /\ pc = "read"
    /\ LET file == FsRead(arg.file_path)
       IN IF IsOk(file)
          THEN /\ locals' = [locals EXCEPT !.file = Some(file.v)]
               /\ pc' = "file_name"
               /\ UNCHANGED out
          ELSE /\ Return(Err("Io"))
               /\ UNCHANGED locals
    /\ UNCHANGED <<entry, arg, common, sent, client, process>>
    /\ UNCHANGED <<running, suspended>>

\* let file_name = file_path.file_name().ok_or(FileIOError)?
\*                          .to_str().ok_or(FileIOError)?.to_string()
FileName ==
    /\ pc = "file_name"
    /\ LET name == PathFileName(arg.file_path)
       IN IF ~name.some THEN Return(Err("FileIOError")) /\ UNCHANGED locals
          ELSE IF ~ToStr(name.v).some THEN Return(Err("FileIOError")) /\ UNCHANGED locals
          ELSE /\ locals' = [locals EXCEPT !.file_name = ToStr(name.v)]
               /\ pc' = "request"
               /\ UNCHANGED out
    /\ UNCHANGED <<entry, arg, common, sent, client, process>>
    /\ UNCHANGED <<running, suspended>>

\* the file part, the form from the parameters with the part added, and the
\* request with its headers
Request ==
    /\ pc = "request"
    /\ LET file_part == FilePart(locals.file.v, locals.file_name.v)
           form == FormPart(FormFrom(locals.params.v), "files", file_part)
       IN locals' = [locals EXCEPT
                        !.request = Some(BuildRequest(locals.url.v, form, client.v.api_key))]
    /\ pc' = "send"
    /\ UNCHANGED <<entry, arg, out, common, sent, client, process>>
    /\ UNCHANGED <<running, suspended>>

\* faulty variant: a request that met a transport error is sent once more
Send_Retry ==
    /\ pc = "send"
    /\ sent' = Append(sent, locals.request.v)
    /\ \E reply \in Replies :
          IF reply.kind = "error"
          THEN IF sent = <<>>
               THEN UNCHANGED <<pc, out, locals>>
               ELSE Return(Err("RequestFailed")) /\ UNCHANGED locals
          ELSE /\ locals' = [locals EXCEPT
                                !.response = Some([status |-> reply.status,
                                                   body |-> reply.body])]
               /\ pc' = "json"
               /\ UNCHANGED out
    /\ UNCHANGED <<entry, arg, common, client, process>>
    /\ UNCHANGED <<running, suspended>>

\* let response = request.send().await?
Send ==
    /\ pc = "send"
    /\ sent' = Append(sent, locals.request.v)
    /\ \E reply \in Replies :
          IF reply.kind = "error"
          THEN Return(Err("RequestFailed")) /\ UNCHANGED locals
          ELSE /\ locals' = [locals EXCEPT
                                !.response = Some([status |-> reply.status,
                                                   body |-> reply.body])]
               /\ pc' = "json"
               /\ UNCHANGED out
    /\ UNCHANGED <<entry, arg, common, client, process>>
    /\ UNCHANGED <<running, suspended>>

\* let element_list = response.json().await?; Ok(element_list)
Json ==
    /\ pc = "json"
    /\ Return(ResponseJson(locals.response.v))
    /\ UNCHANGED <<entry, arg, common, locals, sent, client, process>>
    /\ UNCHANGED <<running, suspended>>

Next ==
    \/ FromStrMetadata
    \/ IntoCommonMetadata
    \/ FromStrElement
    \/ IntoForm
    \/ DefaultParameters
    \/ MainParse
    \/ MainParams
    \/ MainMatch
    \/ New
    \/ WithApiKey
    \/ JoinUrl
    \/ ReadFile
    \/ FileName
    \/ Request
    \/ Send
    \/ Json

Spec == Init /\ [][Next]_vars

-----------------------------------------------------------------------------
(* Several calls of partition_file on one client.  A call is an async fn:  *)
(* its arguments, its place, its locals and its result are its own, kept   *)
(* in its future while another call runs.  The call that runs has them in  *)
(* arg, pc, locals and out; the others are suspended.  The client is       *)
(* borrowed by every call, and sent is the order in which the requests     *)
(* leave.                                                                  *)

NumCalls == 2

Calls == 1..NumCalls

\* what a call keeps across a suspension
Frame == [arg |-> arg, pc |-> pc, locals |-> locals, out |-> out]

\* the place, in suspended, of the call that runs
Loaded == [pc |-> "running"]

\* a call on entry: partition_file(file_path, params)
Entered(file_path, params) ==
    [arg |-> [file_path |-> file_path, params |-> params],
     pc |-> "join",
     locals |-> [LocalsInit EXCEPT !.params = Some(params)],
     out |-> Pending]

\* faulty variant: the locals are one buffer that every call uses
SuspendedLocals_Shared(c) == locals

\* the locals the call c holds while suspended
SuspendedLocals(c) == suspended[c].locals

\* the client the calls are made on, built with a key
ConcurrentClients ==
    {with_api_key(new([parses |-> TRUE,
                       url |-> Url(Some("https://api.unstructured.io"), "/v1/")]).v,
                  "secret")}

\* the files of the calls: two that can be sent, one whose name cannot
ConcurrentPaths ==
    {f \in Paths : f.kind = "file" /\ (f.file_name.v.utf8 \/ f.bytes # "")}

\* the responses the calls get: an element list, an error object, a body
\* that is not JSON
ConcurrentResponses ==
    {[status |-> 200,
      body |-> JArr(<<JObj([type |-> JStr("Title"), element_id |-> JStr("2"),
                           text |-> JStr("Intro")])>>)],
     [status |-> 401, body |-> JObj([error |-> JStr("Invalid API key")])],
     [status |-> 500, body |-> NotJson]}

ConcurrentInit ==
    /\ entry = "Concurrent"
    /\ client \in {Some(c) : c \in ConcurrentClients}
    /\ \E params \in ParamsOfCalls, file_path \in [Calls -> ConcurrentPaths] :
          /\ arg = Entered(file_path[1], params).arg
          /\ locals = Entered(file_path[1], params).locals
          /\ suspended = [c \in Calls |-> IF c = 1 THEN Loaded
                                          ELSE Entered(file_path[c], params)]
    /\ pc = "join"
    /\ out = Pending
    /\ running = 1
    /\ sent = <<>>
    /\ common = Pending
    /\ process = ProcessInit

\* the executor leaves the call that runs and resumes the call c
Switch(c) ==
    /\ c # running
    /\ suspended' = [suspended EXCEPT ![running] = Frame, ![c] = Loaded]
    /\ running' = c
    /\ arg' = suspended[c].arg
    /\ pc' = suspended[c].pc
    /\ locals' = SuspendedLocals(c)
    /\ out' = suspended[c].out
    /\ UNCHANGED <<entry, common, sent, client, process>>

\* request.send().await, the far end answering with one of the responses
ConcurrentSend ==
    /\ Send
    /\ locals'.response.some => locals'.response.v \in ConcurrentResponses

ConcurrentNext ==
    \/ JoinUrl
    \/ ReadFile
    \/ FileName
    \/ Request
    \/ ConcurrentSend
    \/ Json
    \/ \E c \in Calls : Switch(c)

ConcurrentSpec == ConcurrentInit /\ [][ConcurrentNext]_vars

-----------------------------------------------------------------------------
(* What the claims read: the tables of the wire contract, restated, and the *)
(* value an object gives for a key.                                        *)

\* filetype token -> the variant the contract assigns to it
TokenVariant ==
    [t \in {"application/pdf"} |-> "PdfPage"]
    @@ [t \in {"application/vnd.openxmlformats-officedocument.wordprocessingml.document"}
            |-> "DocxPage"]
    @@ [t \in {"application/vnd.openxmlformats-officedocument.presentationml.presentation"}
            |-> "PptPage"]
    @@ [t \in {"application/vnd.openxmlformats-officedocument.spreadsheetml.sheet",
               "sheet", "excel"} |-> "XlsxPage"]
    @@ [t \in {"message/rfc822"} |-> "Eml"]
    @@ [t \in {"application/vnd.ms-outlook"} |-> "Msg"]
    @@ [t \in {"application/msword"} |-> "WordDoc"]
    @@ [t \in {"text/html"} |-> "Html"]
    @@ [t \in {"application/epub+zip"} |-> "Epub"]

\* variant -> its format-specific fields
FormatFields ==
    [PdfPage |-> {"page_number"}, DocxPage |-> {"page_number"},
     PptPage |-> {"page_number"}, XlsxPage |-> {"page_number", "page_name"},
     Eml |-> {"sent_from", "sent_to", "subject"}, Msg |-> {"attached_to_filename"},
     WordDoc |-> {"page_number", "header_footer_type"},
     Html |-> {"link_urls", "link_texts"}, Epub |-> {"section"}]

CommonFields ==
    {"filename", "file_directory", "last_modified", "filetype", "coordinates",
     "parent_id", "category_depth", "text_as_html", "languages",
     "emphasized_text_contents", "emphasized_text_tags", "is_continuation",
     "detection_class_prob"}

StringListFields == {"languages", "link_urls", "link_texts"}
NumberListFields == {"detection_class_prob"}
IntegerFields == {"category_depth", "page_number"}
FlagFields == {"is_continuation"}

IsNumber(j) == j.k \in {"num", "float", "bignum"}

\* the value of key n is absent, null or of the type declared for field n
WellTyped(obj, n) ==
    \/ n \notin DOMAIN obj.o
    \/ obj.o[n].k = "null"
    \/ LET j == obj.o[n]
       IN CASE n \in StringListFields ->
                 j.k = "arr" /\ \A i \in DOMAIN j.a : j.a[i].k = "str"
            [] n \in NumberListFields ->
                 j.k = "arr" /\ \A i \in DOMAIN j.a : IsNumber(j.a[i])
            [] n \in IntegerFields -> j.k = "num" /\ j.n >= 0
            [] n \in FlagFields -> j.k = "bool"
            [] OTHER -> j.k = "str"

\* the value the object gives for field n, as an Option
Given(obj, n) ==
    IF n \notin DOMAIN obj.o \/ obj.o[n].k = "null" THEN None
    ELSE LET j == obj.o[n]
         IN CASE n \in StringListFields -> Some([i \in DOMAIN j.a |-> j.a[i].s])
              [] n \in NumberListFields ->
                   Some([i \in DOMAIN j.a |->
                           IF j.a[i].k = "num" THEN JFloat(10 * j.a[i].n) ELSE j.a[i]])
              [] n \in IntegerFields -> Some(j.n)
              [] n \in FlagFields -> Some(j.b)
              [] OTHER -> Some(j.s)

Decoded(e) == entry = e /\ out.tag # "Pending"
FiletypeOf(obj) == IF Has(obj, "filetype") THEN obj.o["filetype"] ELSE JNull
HasKnownToken(obj) ==
    Has(obj, "filetype") /\ obj.o["filetype"].k = "str"
        /\ obj.o["filetype"].s \in DOMAIN TokenVariant
\* filetype is missing, or a string that is no known token
HasNoKnownToken(obj) ==
    ~Has(obj, "filetype")
        \/ (obj.o["filetype"].k = "str" /\ obj.o["filetype"].s \notin DOMAIN TokenVariant)

-----------------------------------------------------------------------------
\* C2: decoding a metadata object that holds only one of the known filetype
\* tokens (aliases sheet and excel included) gives KnownFormat with the
\* variant assigned to the token and every optional field, common and
\* format-specific, None.
C2_DiscriminatorTotality ==
    (Decoded("Metadata") /\ arg.k = "obj" /\ DOMAIN arg.o = {"filetype"}
        /\ HasKnownToken(arg))
    => /\ IsOk(out)
       /\ out.v.format = "KnownFormat"
       /\ out.v.variant = TokenVariant[arg.o["filetype"].s]
       /\ DOMAIN out.v.common = CommonFields
       /\ \A n \in CommonFields : out.v.common[n] = None
       /\ DOMAIN out.v.ext = FormatFields[out.v.variant]
       /\ \A n \in DOMAIN out.v.ext : out.v.ext[n] = None

C2_Witness ==
    /\ Decoded("Metadata")
    /\ arg = JObj([filetype |-> JStr("excel")])
    /\ IsOk(out) /\ out.v.format = "KnownFormat" /\ out.v.variant = "XlsxPage"

-----------------------------------------------------------------------------
AllWellTyped(obj, names) == \A n \in names : WellTyped(obj, n)

\* C3 as stated: a metadata object whose filetype is missing or an unknown
\* string always decodes, as UnknownFormat, whatever else it carries, and
\* keeps every recognized common field.
C3_Original ==
    (Decoded("Metadata") /\ arg.k = "obj" /\ HasNoKnownToken(arg))
    => /\ IsOk(out)
       /\ out.v.format = "UnknownFormat"
       /\ \A n \in CommonFields : out.v.common[n] = Given(arg, n)

\* C3, amended: a metadata object whose filetype is missing or an unknown
\* string decodes as UnknownFormat, keeping every recognized common field and
\* ignoring every other key, provided each common field it carries is null or
\* of the field's declared type; when one is not, decoding is an error.
C3_Fallback ==
    (Decoded("Metadata") /\ arg.k = "obj" /\ HasNoKnownToken(arg))
    => IF AllWellTyped(arg, CommonFields)
       THEN /\ IsOk(out)
            /\ out.v.format = "UnknownFormat"
            /\ DOMAIN out.v.common = CommonFields
            /\ \A n \in CommonFields : out.v.common[n] = Given(arg, n)
       ELSE ~IsOk(out)

C3_Witness ==
    /\ Decoded("Metadata")
    /\ arg.k = "obj" /\ HasNoKnownToken(arg) /\ Has(arg, "filetype")
    /\ Has(arg, "width") /\ Has(arg, "filename")
    /\ IsOk(out) /\ out.v.format = "UnknownFormat"
    /\ out.v.common["filename"] = Some("example.pdf")
    /\ out.v.common["filetype"] = Some("asdfasdfasdf")

-----------------------------------------------------------------------------
\* the fields the variant of the object's token reads, filetype aside
VariantFields(obj) ==
    FormatFields[TokenVariant[obj.o["filetype"].s]] \cup (CommonFields \ {"filetype"})

\* C4 as stated: every metadata object whose filetype is a known token
\* decodes to the KnownFormat variant of the token, each format-specific and
\* each common field beside filetype holding the value given, or None.
C4_Original ==
    (Decoded("Metadata") /\ arg.k = "obj" /\ HasKnownToken(arg))
    => /\ IsOk(out)
       /\ out.v.format = "KnownFormat"
       /\ out.v.variant = TokenVariant[arg.o["filetype"].s]
       /\ \A n \in DOMAIN out.v.ext : out.v.ext[n] = Given(arg, n)
       /\ \A n \in CommonFields \ {"filetype"} : out.v.common[n] = Given(arg, n)

\* C4, amended: a metadata object whose filetype is a known token decodes to
\* the KnownFormat variant of the token, with each format-specific field and
\* each common field beside filetype holding the value given or None,
\* provided every such field it carries is null or of the declared type; and
\* no object decodes to a KnownFormat variant other than its token's.
C4_KnownFormat ==
    (Decoded("Metadata") /\ arg.k = "obj" /\ HasKnownToken(arg))
    => /\ AllWellTyped(arg, VariantFields(arg))
          => /\ IsOk(out)
             /\ out.v.format = "KnownFormat"
             /\ DOMAIN out.v.ext = FormatFields[out.v.variant]
             /\ \A n \in DOMAIN out.v.ext : out.v.ext[n] = Given(arg, n)
             /\ \A n \in CommonFields \ {"filetype"} : out.v.common[n] = Given(arg, n)
       /\ (IsOk(out) /\ out.v.format = "KnownFormat")
          => out.v.variant = TokenVariant[arg.o["filetype"].s]

C4_Witness ==
    /\ Decoded("Metadata")
    /\ arg = JObj([filetype |-> JStr("application/pdf"), page_number |-> JNum(3)])
    /\ IsOk(out) /\ out.v.format = "KnownFormat" /\ out.v.variant = "PdfPage"
    /\ out.v.ext["page_number"] = Some(3)

-----------------------------------------------------------------------------
Projected == entry = "Metadata" /\ common.tag = "Ok" /\ arg.k = "obj"

\* C5 as stated: into_common_metadata of a decoded metadata object returns
\* each of the thirteen common fields, filetype among them, with the value
\* the object gave.
C5_Original ==
    Projected => \A n \in CommonFields : common.v[n] = Given(arg, n)

\* C5, amended: into_common_metadata of a decoded metadata object returns
\* each common field other than filetype with the value the object gave; on
\* UnknownFormat it is the identity, filetype included; on a KnownFormat
\* variant filetype is None, the token having been taken by the variant.
C5_IntoCommon ==
    Projected
    => /\ DOMAIN common.v = CommonFields
       /\ \A n \in CommonFields \ {"filetype"} : common.v[n] = Given(arg, n)
       /\ IF out.v.format = "UnknownFormat"
          THEN common.v = out.v.common /\ common.v["filetype"] = Given(arg, "filetype")
          ELSE common.v["filetype"] = None

C5_Witness ==
    /\ Projected
    /\ out.v.format = "KnownFormat" /\ out.v.variant = "Html"
    /\ Has(arg, "languages") /\ Has(arg, "link_texts")
    /\ common.v["languages"] = Some(<<"en", "fr">>)

-----------------------------------------------------------------------------
Vocabulary ==
    {"Formula", "FigureCaption", "NarrativeText", "ListItem", "Title", "Address",
     "EmailAddress", "Image", "PageBreak", "Table", "Header", "Footer",
     "CodeSnippet", "PageNumber", "UncategorizedText", "CompositeElement"}

HasString(obj, key) == Has(obj, key) /\ obj.o[key].k = "str"
\* `type` is a string of the vocabulary
HasVocabularyType(obj) == HasString(obj, "type") /\ obj.o["type"].s \in Vocabulary
\* `type` names a member of the vocabulary: as a string, or as the object
\* {"<name>": null}
NamesVocabularyType(obj) ==
    \/ HasVocabularyType(obj)
    \/ /\ Has(obj, "type") /\ obj.o["type"].k = "obj"
       /\ \E n \in Vocabulary : obj.o["type"].o = (n :> JNull)
TypeNamed(obj) ==
    IF obj.o["type"].k = "str" THEN obj.o["type"].s
    ELSE CHOOSE n \in Vocabulary : DOMAIN obj.o["type"].o = {n}
NoMetadata(obj) == ~Has(obj, "metadata") \/ obj.o["metadata"].k = "null"

\* C6 as stated: an element object decodes exactly when it has a type of
\* the vocabulary, a string element_id and a string text; metadata null or
\* absent both give metadata = None.
C6_Original ==
    (Decoded("Element") /\ arg.k = "obj")
    => /\ IsOk(out) <=> /\ NamesVocabularyType(arg)
                        /\ HasString(arg, "element_id")
                        /\ HasString(arg, "text")
       /\ (IsOk(out) /\ NoMetadata(arg)) => out.v.metadata = None

\* C6, amended: an element object decodes exactly when its type names a
\* member of the vocabulary (as a string, or as {"<name>": null}), its
\* element_id and text are strings, and its metadata is absent, null or a
\* value that decodes as Metadata; the element holds the type, element_id
\* and text given, and metadata = None when metadata is null or absent.
C6_Element ==
    (Decoded("Element") /\ arg.k = "obj")
    => /\ IsOk(out) <=> /\ NamesVocabularyType(arg)
                        /\ HasString(arg, "element_id")
                        /\ HasString(arg, "text")
                        /\ NoMetadata(arg) \/ IsOk(DeserMetadata(arg.o["metadata"]))
       /\ IsOk(out)
          => /\ out.v.type = TypeNamed(arg)
             /\ out.v.element_id = arg.o["element_id"].s
             /\ out.v.text = arg.o["text"].s
             /\ out.v.metadata = IF NoMetadata(arg) THEN None
                                 ELSE Some(DeserMetadata(arg.o["metadata"]).v)

C6_Witness ==
    /\ Decoded("Element")
    /\ arg = JObj([type |-> JStr("NarrativeText"), element_id |-> JStr("1"),
                   text |-> JStr("Hello"), metadata |-> JNull])
    /\ out = Ok([type |-> "NarrativeText", element_id |-> "1", text |-> "Hello",
                 metadata |-> None])

-----------------------------------------------------------------------------
\* the values of the text fields named name, in the form's order
FieldValues(form, name) ==
    LET parts == SelectSeq(form, LAMBDA part : part.name = name)
    IN [i \in DOMAIN parts |-> parts[i].text]

Omitted(form, name) == FieldValues(form, name) = <<>>

\* C7: chunking_strategy is omitted from the form when the configuration has
\* none, and emitted once, with the bare token as its value, when it has one.
C7_ChunkingStrategy ==
    Decoded("Form")
    => IF arg.chunking_strategy.some
       THEN FieldValues(out.v, "chunking_strategy") = <<arg.chunking_strategy.v>>
       ELSE Omitted(out.v, "chunking_strategy")

\* a number of tenths as Rust prints the f64: 5 is 0.5, 10 is 1
TenthsText(t) ==
    IF t % 10 = 0 THEN ToString(t \div 10)
    ELSE ToString(t \div 10) \o "." \o ToString(t % 10)

\* C8: similarity_threshold is in the form exactly when the configuration
\* has one, with that value as a string, inside [0, 1] or not.
C8_SimilarityThreshold ==
    Decoded("Form")
    => IF arg.similarity_threshold.some
       THEN FieldValues(out.v, "similarity_threshold")
                = <<TenthsText(arg.similarity_threshold.v)>>
       ELSE Omitted(out.v, "similarity_threshold")

IntegerOptionals ==
    {"starting_page_number", "combine_under_n_chars", "max_characters",
     "new_after_n_chars"}

\* C9: the four optional integers follow one absent-value policy: in every
\* form either each absent one is omitted or each absent one is "0", and
\* each present one is its decimal string.
C9_IntegerPolicy ==
    Decoded("Form")
    => LET absent == {f \in IntegerOptionals : ~arg[f].some}
       IN /\ \/ \A f \in absent : Omitted(out.v, f)
             \/ \A f \in absent : FieldValues(out.v, f) = <<"0">>
          /\ \A f \in IntegerOptionals \ absent :
                FieldValues(out.v, f) = <<ToString(arg[f].v)>>

C9_Witness ==
    /\ Decoded("Form")
    /\ ~arg.starting_page_number.some /\ ~arg.new_after_n_chars.some
    /\ arg.max_characters = Some(500) /\ arg.combine_under_n_chars = Some(-1)
    /\ FieldValues(out.v, "starting_page_number") = <<"0">>
    /\ FieldValues(out.v, "new_after_n_chars") = <<"0">>
    /\ FieldValues(out.v, "max_characters") = <<"500">>
    /\ FieldValues(out.v, "combine_under_n_chars") = <<"-1">>

ListAttributes == {"extract_image_block_types", "languages", "skip_infer_table_types"}

\* a string as a JSON string literal
RECURSIVE Quoted(_, _)
Quoted(chars, i) ==
    IF i > Len(chars) THEN "\""
    ELSE (CASE chars[i] = "\"" -> "\\\""
            [] chars[i] = "\\" -> "\\\\"
            [] chars[i] = "\n" -> "\\n"
            [] OTHER -> chars[i]) \o Quoted(chars, i + 1)

\* the text of the JSON array of the first n strings of list, unclosed
RECURSIVE ArrayPrefix(_, _)
ArrayPrefix(list, n) ==
    IF n = 0 THEN "["
    ELSE ArrayPrefix(list, n - 1) \o (IF n > 1 THEN "," ELSE "")
            \o "\"" \o Quoted(list[n], 1)

\* C10: each list attribute is always in the form, once, under its own
\* name, as the JSON array of the list's strings in order, duplicates kept;
\* "[]" when the list is empty.
C10_Lists ==
    Decoded("Form")
    => \A f \in ListAttributes :
          /\ FieldValues(out.v, f) = <<ArrayPrefix(arg[f], Len(arg[f])) \o "]">>
          /\ arg[f] = <<>> => FieldValues(out.v, f) = <<"[]">>

C10_Witness ==
    /\ Decoded("Form")
    /\ arg.languages = << <<"e", "n", "g">>, <<"e", "n", "g">> >>
    /\ arg.extract_image_block_types = <<>>
    /\ arg.skip_infer_table_types = << <<"a", "\"", "b">>, <<"e", "n", "g">> >>
    /\ FieldValues(out.v, "languages") = <<"[\"eng\",\"eng\"]">>
    /\ FieldValues(out.v, "extract_image_block_types") = <<"[]">>
    /\ FieldValues(out.v, "skip_infer_table_types") = <<"[\"a\\\"b\",\"eng\"]">>

-----------------------------------------------------------------------------
\* partition_file has returned after reading a response
Answered == entry = "Partition" /\ pc = "done" /\ locals.response.some

Body == locals.response.v.body

\* an element object whose metadata, if any, can be read
WellFormedElementObject(e) ==
    /\ e.k = "obj"
    /\ NamesVocabularyType(e)
    /\ HasString(e, "element_id")
    /\ HasString(e, "text")
    /\ NoMetadata(e) \/ IsOk(DeserMetadata(e.o["metadata"]))

ArrayOfElementObjects(b) ==
    b.k = "arr" /\ \A i \in DOMAIN b.a : WellFormedElementObject(b.a[i])

\* C1: the body's shape decides the outcome: an array in which every entry is
\* a well-formed element object is Success (the empty array too), any other
\* JSON value is Failure wrapping that value, and a body that is not JSON is
\* an error returned from partition_file.
C1_ShapeDiscrimination ==
    Answered
    => CASE Body = NotJson -> ~IsOk(out)
         [] ArrayOfElementObjects(Body) ->
               /\ IsOk(out) /\ out.v.variant = "Success"
               /\ Len(out.v.list) = Len(Body.a)
         [] OTHER -> out = Ok(Failure(Body))

-----------------------------------------------------------------------------
Flags ==
    {"coordinates", "include_page_breaks", "unique_element_ids", "xml_keep_tags",
     "overlap_all", "include_orig_elements", "multipage_sections"}

\* C11: every form holds the always-emitted fields: the seven flags as
\* "true" or "false", overlap in decimal, strategy and output_format as
\* their token, encoding as configured or "utf-8" when absent; the default
\* configuration gives coordinates=false, encoding=utf-8, strategy=auto and
\* extract_image_block_types=[].
C11_AlwaysEmitted ==
    Decoded("Form")
    => /\ \A f \in Flags :
             FieldValues(out.v, f) = <<IF arg[f] THEN "true" ELSE "false">>
       /\ FieldValues(out.v, "overlap") = <<ToString(arg.overlap)>>
       /\ FieldValues(out.v, "strategy") = <<arg.strategy>>
       /\ FieldValues(out.v, "output_format") = <<arg.output_format>>
       /\ FieldValues(out.v, "encoding")
             = <<IF arg.encoding.some THEN arg.encoding.v ELSE "utf-8">>
       /\ (\A f \in Flags \ {"include_orig_elements", "multipage_sections"} : ~arg[f])
          /\ arg.include_orig_elements /\ arg.multipage_sections
          /\ arg.encoding = Some("utf-8") /\ arg.strategy = "auto"
          /\ arg.extract_image_block_types = <<>>
          => /\ FieldValues(out.v, "coordinates") = <<"false">>
             /\ FieldValues(out.v, "encoding") = <<"utf-8">>
             /\ FieldValues(out.v, "strategy") = <<"auto">>
             /\ FieldValues(out.v, "extract_image_block_types") = <<"[]">>

C11_Witness ==
    /\ Decoded("Form")
    /\ ~arg.encoding.some /\ arg.strategy = "hi_res" /\ arg.overlap = -3
    /\ FieldValues(out.v, "encoding") = <<"utf-8">>
    /\ FieldValues(out.v, "strategy") = <<"hi_res">>
    /\ FieldValues(out.v, "overlap") = <<"-3">>
    /\ FieldValues(out.v, "multipage_sections") = <<"true">>

UnsetByDefault ==
    {"gz_uncompressed_content_type", "hi_res_model_name", "starting_page_number",
     "similarity_threshold", "chunking_strategy"}

ChunkSizes == {"combine_under_n_chars", "max_characters", "new_after_n_chars"}

\* what the default configuration is said to hold apart from the chunk sizes
DefaultsApartFromChunkSizes(d) ==
    /\ \A f \in Flags \ {"include_orig_elements", "multipage_sections"} : d[f] = FALSE
    /\ d.include_orig_elements = TRUE /\ d.multipage_sections = TRUE
    /\ d.strategy = "auto" /\ d.output_format = "application/json"
    /\ \A f \in ListAttributes : d[f] = <<>>
    /\ \A f \in UnsetByDefault : ~d[f].some

\* C12 as stated: the default configuration has the flags false but
\* include_orig_elements and multipage_sections, strategy auto, output
\* format application/json, empty lists, no chunking strategy and no value
\* for any optional scalar, the three chunk sizes included.
C12_Original ==
    Decoded("Default")
    => /\ DefaultsApartFromChunkSizes(out.v)
       /\ \A f \in ChunkSizes : ~out.v[f].some

\* C12, amended: as stated, except that the three chunk sizes have the
\* defaults the field documentation gives: combine_under_n_chars 500,
\* max_characters 500, new_after_n_chars 1500.
C12_Default ==
    Decoded("Default")
    => /\ DefaultsApartFromChunkSizes(out.v)
       /\ out.v.combine_under_n_chars = Some(500)
       /\ out.v.max_characters = Some(500)
       /\ out.v.new_after_n_chars = Some(1500)

C12_Witness ==
    /\ Decoded("Default")
    /\ ~out.v.chunking_strategy.some
    /\ out.v.new_after_n_chars = Some(1500)
    /\ out.v.multipage_sections

-----------------------------------------------------------------------------
\* partition_file has built its request
RequestBuilt == entry \in {"Partition", "Cli"} /\ locals.request.some

IsText(part) == "text" \in DOMAIN part
IsBinary(part) == "bytes" \in DOMAIN part

TextNamesOnce(form) ==
    \A i, j \in DOMAIN form :
        (IsText(form[i]) /\ IsText(form[j]) /\ form[i].name = form[j].name) => i = j

\* C14: in every request body partition_file builds, no text field name
\* occurs twice, and there is exactly one binary part, named files, after
\* all the configuration's text fields.
C14_OneFilePart ==
    /\ Decoded("Form") => TextNamesOnce(out.v)
    /\ RequestBuilt
       => LET form == locals.request.v.form
          IN /\ TextNamesOnce(form)
             /\ Cardinality({i \in DOMAIN form : IsBinary(form[i])}) = 1
             /\ IsBinary(form[Len(form)])
             /\ form[Len(form)].name = "files"
             /\ \A i \in 1..(Len(form) - 1) : IsText(form[i])

C14_Witness ==
    /\ RequestBuilt
    /\ Len(locals.request.v.form) = 22
    /\ locals.request.v.form[22] = [name |-> "files", bytes |-> "%PDF", file_name |-> "a.pdf"]
    /\ locals.request.v.form[1] = [name |-> "coordinates", text |-> "false"]

-----------------------------------------------------------------------------
\* partition_file was called and has returned
Returned == entry \in {"Partition", "Cli"} /\ client.some /\ pc \in {"done", "exited"}

NoBaseName(path) == ~path.file_name.some
BaseNameNotText(path) == path.file_name.some /\ ~path.file_name.v.utf8

FilePartOf(form) == form[CHOOSE i \in DOMAIN form : IsBinary(form[i])]

\* C15 as stated: the file part's filename is the path's base name; when the
\* path has no base name or the base name is not valid UTF-8, partition_file
\* (having read the file) fails with InvalidFileName and produces no result.
C15_Original ==
    /\ RequestBuilt
       => FilePartOf(locals.request.v.form).file_name = arg.file_path.file_name.v.text
    /\ (Returned /\ locals.file.some
          /\ (NoBaseName(arg.file_path) \/ BaseNameNotText(arg.file_path)))
       => out = Err("InvalidFileName") /\ sent = <<>>

\* C15, amended: the file part's filename is the path's base name; when the
\* base name is not valid UTF-8 and the url was joined and the file read,
\* partition_file fails with FileIOError and sends nothing; a path with no
\* base name fails too, with the error of an earlier step, and sends
\* nothing.
C15_FileName ==
    /\ RequestBuilt
       => FilePartOf(locals.request.v.form).file_name = arg.file_path.file_name.v.text
    /\ (Returned /\ BaseNameNotText(arg.file_path))
       => /\ sent = <<>>
          /\ out = CASE client.v.base_url.origin = None -> Err("URLParseFailed")
                     [] arg.file_path.kind # "file" -> Err("Io")
                     [] OTHER -> Err("FileIOError")
    /\ (Returned /\ NoBaseName(arg.file_path))
       => sent = <<>> /\ out \in {Err("URLParseFailed"), Err("Io"), Err("FileIOError")}

C15_Witness ==
    /\ Returned
    /\ BaseNameNotText(arg.file_path)
    /\ locals.file = Some("%PDF")
    /\ out = Err("FileIOError")
    /\ sent = <<>>

-----------------------------------------------------------------------------
\* partition_file has returned after reading a response
Responded == Returned /\ locals.response.some

Status == locals.response.v.status

\* C16: the status is never inspected: with the same body and any other
\* status, partition_file returns the same value (the same Success list, the
\* same Failure payload, or an error in both).
C16_StatusAdvisory ==
    Responded
    => \A st \in Statuses : ResponseJson([status |-> st, body |-> Body]) = out

C16_Witness ==
    /\ Responded
    /\ Status = 500
    /\ Body = JArr(<<JObj([type |-> JStr("Title"), element_id |-> JStr("2"),
                          text |-> JStr("Intro")])>>)
    /\ out = Ok(Success(<<[type |-> "Title", element_id |-> "2", text |-> "Intro",
                          metadata |-> None]>>))

Is2xx(st) == 200 <= st /\ st <= 299

\* no entry of the array b is itself an array
NoArrayEntries(b) == b.k = "arr" => \A i \in DOMAIN b.a : b.a[i].k # "arr"

\* C17 as stated (for bodies whose entries are not arrays): a JSON body is
\* Success only when the status is in the 200 range and the body is an
\* array of element objects; with any other status, or any other body, it is
\* Failure carrying the body untouched.
C17_Original ==
    (Responded /\ Body # NotJson /\ NoArrayEntries(Body))
    => IF Is2xx(Status) /\ ArrayOfElementObjects(Body)
       THEN IsOk(out) /\ out.v.variant = "Success"
       ELSE out = Ok(Failure(Body))

\* C17, amended: whatever the status, a JSON body that is an array of
\* well-formed element objects is Success with one element per entry, and a
\* JSON body that is not an array, or that holds an entry which is neither
\* an array nor a well-formed element object, is Failure carrying the body
\* untouched; a Failure always carries the body untouched.
C17_ResponseContract ==
    (Responded /\ Body # NotJson)
    => /\ IsOk(out)
       /\ out.v.variant = "Failure" => out.v.value = Body
       /\ ArrayOfElementObjects(Body)
          => out.v.variant = "Success" /\ Len(out.v.list) = Len(Body.a)
       /\ (Body.k # "arr"
           \/ \E i \in DOMAIN Body.a :
                 Body.a[i].k # "arr" /\ ~WellFormedElementObject(Body.a[i]))
          => out = Ok(Failure(Body))

C17_Witness ==
    /\ Responded
    /\ Status = 401
    /\ Body = JArr(<<>>)
    /\ out = Ok(Success(<<>>))

\* C18: a body that cannot be decoded is reported as an error of a kind
\* other than the transport kind RequestFailed, and is never made a Success
\* or a Failure value.
C18_MalformedBody ==
    (Responded /\ Body = NotJson)
    => ~IsOk(out) /\ out.e # "RequestFailed"

-----------------------------------------------------------------------------
\* the values of the headers named name, in the request's order
HeaderValues(request, name) ==
    LET hs == SelectSeq(request.headers, LAMBDA h : h[1] = name)
    IN [i \in DOMAIN hs |-> hs[i][2]]

\* the request is the one the caller's client has to send
RequestOfClient(request) ==
    /\ request.method = "POST"
    /\ request.url = [origin |-> arg.base_url.url.origin, path |-> "/general/v0/general"]
    /\ HeaderValues(request, "User-Agent") = <<"Unstructured-Rust-Client/" \o VERSION>>
    /\ HeaderValues(request, "unstructured-api-key")
          = IF arg.api_key.some THEN <<arg.api_key.v>> ELSE <<>>

\* C19: every step that sends, sends one POST to the base url joined with
\* /general/v0/general, with the User-Agent and with the key header exactly
\* when a key was set, holding that key; with_api_key changes the key only,
\* and no step of partition_file changes the client.
C19_Requests ==
    [][/\ sent' # sent
          => /\ sent = <<>> /\ Len(sent') = 1
             /\ RequestOfClient(sent'[1])
       /\ (client.some /\ client' # client)
          => /\ pc = "with_api_key"
             /\ client'.v.base_url = client.v.base_url
             /\ client'.v.api_key = arg.api_key
       /\ pc \in {"join", "read", "file_name", "request", "send", "json"}
          => client' = client]_vars

C19_Witness ==
    /\ Returned
    /\ Len(sent) = 1
    /\ client.v.api_key = Some("secret")
    /\ HeaderValues(sent[1], "unstructured-api-key") = <<"secret">>
    /\ sent[1].url = Url(Some("https://api.unstructured.io"), API_ROUTE)

-----------------------------------------------------------------------------
\* the command-line run has ended
Exited == entry = "Cli" /\ pc = "exited"

\* C20: a run ends in one of two ways: the decoded element list printed as
\* JSON and exit code zero, or an error message and a non-zero exit code;
\* it never exits zero without having printed a decoded element list, and
\* exits non-zero whenever a step failed.
C20_CliExit ==
    Exited
    => /\ \/ /\ process.exit = Some(0)
             /\ IsOk(out) /\ out.v.variant = "Success"
             /\ process.stdout = <<to_string(out.v.list).v>>
          \/ /\ process.exit.v # 0
             /\ process.stderr # <<>>
             /\ process.stdout = <<>>
       /\ ~IsOk(out) => process.exit.v # 0

-----------------------------------------------------------------------------
\* the type, element_id and text an element object states
StatedFields(e) == <<TypeNamed(e), e.o["element_id"].s, e.o["text"].s>>

\* the type, element_id and text of a decoded Element
ElementFields(el) == <<el.type, el.element_id, el.text>>

-----------------------------------------------------------------------------
\* the steps of partition_file that come before the request is sent
LocalSteps == {"new", "join", "read", "file_name"}

\* the errors of those steps
LocalErrors == {"URLParseFailed", "Io", "FileIOError"}

\* C22: a call issues at most one POST and never repeats it: a step that
\* fails before the send (the url, reading the file, the file name) returns
\* its error with nothing sent; the send that meets a transport error
\* returns RequestFailed with that one request sent; and once the response is
\* in, be it decoded or not, and after the call has returned, nothing more
\* is sent.
C22_AtMostOnePost ==
    [][/\ Len(sent') <= 1
       /\ (pc \in LocalSteps /\ pc' = "done")
          => sent' = <<>> /\ ~IsOk(out') /\ out'.e \in LocalErrors
       /\ (pc = "send" /\ pc' = "done")
          => out' = Err("RequestFailed") /\ Len(sent') = 1
       /\ pc \in {"json", "done", "exited"} => sent' = sent]_vars

\* a call that met a transport error has returned, one request sent
C22_Witness ==
    /\ Returned
    /\ out = Err("RequestFailed")
    /\ ~locals.response.some
    /\ Len(sent) = 1

-----------------------------------------------------------------------------
\* main has built the parameters from the command line
ParamsBuilt == entry = "Cli" /\ locals.params.some

\* the command line gives none of the three list options
NoListOptions == \A f \in ListAttributes : arg.options[f] = <<>>

\* C24: the parameters built from the command line have every field as the
\* parsed arguments have it; and on a command line with none of the three
\* list options each of the three lists is empty, as in
\* PartitionParameters::default(), and goes into the request as "[]".
C24_CliLists ==
    ParamsBuilt
    => /\ \A f \in DOMAIN locals.params.v :
             locals.params.v[f] = locals.app_args.v[f]
       /\ NoListOptions
          => \A f \in ListAttributes :
                /\ locals.params.v[f] = <<>>
                /\ locals.params.v[f] = PartitionParametersDefault[f]
                /\ RequestBuilt
                   => FieldValues(locals.request.v.form, f) = <<"[]">>

-----------------------------------------------------------------------------
\* the state of the call c, running or suspended
FrameOf(c) == IF c = running THEN Frame ELSE suspended[c]

\* the request a call with the arguments a sends when it is the only call
\* on the client
AloneRequest(self, a) ==
    BuildRequest(UrlJoin(self.base_url, API_ROUTE).v,
                 FormPart(FormFrom(a.params), "files",
                          FilePart(a.file_path.bytes, a.file_path.file_name.v.text)),
                 self.api_key)

\* the value such a call returns, given the response it got, if any
AloneResult(a, response) ==
    CASE a.file_path.kind # "file" -> Err("Io")
      [] ~a.file_path.file_name.some -> Err("FileIOError")
      [] ~a.file_path.file_name.v.utf8 -> Err("FileIOError")
      [] ~response.some -> Err("RequestFailed")
      [] OTHER -> ResponseJson(response.v)

\* the call c has sent its request
HasSent(c) ==
    \/ FrameOf(c).pc = "json"
    \/ FrameOf(c).pc = "done" /\ FrameOf(c).locals.request.some

\* each call has built, sent and returned what it does alone
AsAlone ==
    /\ \A c \in Calls :
          /\ FrameOf(c).locals.request.some
             => FrameOf(c).locals.request.v = AloneRequest(client.v, FrameOf(c).arg)
          /\ FrameOf(c).pc = "done"
             => FrameOf(c).out = AloneResult(FrameOf(c).arg, FrameOf(c).locals.response)
          /\ HasSent(c)
             => \E i \in DOMAIN sent : sent[i] = AloneRequest(client.v, FrameOf(c).arg)
    /\ Len(sent) = Cardinality({c \in Calls : HasSent(c)})
    /\ \A i \in DOMAIN sent :
          \E c \in Calls : HasSent(c) /\ sent[i] = FrameOf(c).locals.request.v

\* a step writes nothing that belongs to a call other than the one that
\* runs, nor the client and the arguments of any call; a switch writes
\* nothing at all
OwnStateOnly ==
    /\ client' = client
    /\ \A c \in Calls :
          /\ FrameOf(c)'.arg = FrameOf(c).arg
          /\ (c # running \/ running' # running) => FrameOf(c)' = FrameOf(c)
    /\ running' # running => sent' = sent

\* C23: in every interleaving of the calls made on one client with equal
\* parameters, each call builds and sends the request, and returns the
\* value, that it builds, sends and returns when it is the only call; the
\* requests sent are those of the calls that have sent, one each; and no
\* step changes the client, a call's arguments, or the state of a call
\* other than the one that takes the step.
C23_Independence == []AsAlone /\ [][OwnStateOnly]_vars

\* both calls have returned, the second one resumed and sent first, and the
\* two got different answers
C23_Witness ==
    /\ entry = "Concurrent"
    /\ \A c \in Calls : FrameOf(c).pc = "done"
    /\ Len(sent) = NumCalls
    /\ sent[1] = FrameOf(2).locals.request.v
    /\ sent[1] # sent[2]
    /\ IsOk(FrameOf(1).out) /\ FrameOf(1).out.v.variant = "Success"
    /\ IsOk(FrameOf(2).out) /\ FrameOf(2).out.v.variant = "Failure"

====
